---- MODULE Spec2Model ----
(***************************************************************************)
(* EPubContainer (src/plugins/epubplugin/epubcontainer.cpp): the pipeline  *)
(* openFile -> parseMimetype -> parseContainer -> parseContentFile ->      *)
(* parseToc and the registries it fills.                                   *)
(*                                                                         *)
(* Strings are TLA+ strings.  A path is a sequence of tokens, each token   *)
(* either the separator "/" or a name that holds no '/', so that           *)
(* lastIndexOf('/'), left(n) and QDir::cleanPath are computed on the       *)
(* path's structure.  The empty QString is "" and the empty path is <<>>.  *)
(***************************************************************************)
EXTENDS Integers, Sequences, FiniteSets, TLC

VARIABLES
    pc,                   \* position of the caller / of openFile
    opens,                \* number of openFile calls made on this container
    archive,              \* the zip archive handed to the current openFile
    files,                \* openFile's local QStringList files
    result,               \* what openFile returned: "true", "false", "none" while running
    errorEvents,          \* errorHappened signals emitted by the current call
    warnings,             \* QLOG_WARN messages logged by the current call
    stages,               \* functions entered by the current call, in order
    parsed,               \* filepaths whose package document was parsed
    m_items,              \* id -> [mimetype, path]
    m_orderedItems,       \* QStringList
    m_unorderedItems,     \* QSet<QString>
    m_metadata,           \* key -> value
    m_othermetatags,      \* key -> (attribute name -> attribute value)
    m_standardReferences, \* StandardType -> [target, title]
    m_otherReferences,    \* type string -> [target, title]
    m_toc,                \* EPubToc
    headVisits,           \* times parseToc's head loop ran its body on the element after head
    call                  \* the last accessor call: what it was given and what it did

vars == <<pc, opens, archive, files, result, errorEvents,
          warnings, stages, parsed, m_items, m_orderedItems,
          m_unorderedItems, m_metadata, m_othermetatags, m_standardReferences,
          m_otherReferences, m_toc, headVisits, call>>

(***************************************************************************)
(* Bounds of the model.                                                    *)
(***************************************************************************)
MaxRootfiles == 2
MaxItems == 2
MaxSpine == 3
MaxMeta == 2
MaxGuide == 2
MaxTocMeta == 2
MaxNavPoints == 2
MaxHeadVisits == 3
MaxOpens == 2

(***************************************************************************)
(* Generic helpers.                                                        *)
(***************************************************************************)
SeqsUpTo(S, n) == UNION {[1..k -> S] : k \in 0..n}

Put(f, k, v) == [x \in DOMAIN f \cup {k} |-> IF x = k THEN v ELSE f[x]]

EmptyMap == [x \in {} |-> ""]

ValueOf(f, k) == IF k \in DOMAIN f THEN f[k] ELSE ""

(***************************************************************************)
(* File names of the archive.                                              *)
(***************************************************************************)
MIMETYPE_FILE == <<"mimetype">>
CONTAINER_FILE == <<"META-INF", "/", "container.xml">>
TOC_FILE == <<"toc.ncx">>

EpubMimetype == "application/epub+zip"

(***************************************************************************)
(* QString::lastIndexOf('/') on a path: the 0-based index of the last      *)
(* separator token, -1 if there is none.  Names are not empty, so the      *)
(* token index is 0 exactly when the character index is 0, and left(n)     *)
(* of the tokens is the character prefix that ends at the same separator.  *)
(***************************************************************************)
RECURSIVE LastSeparator(_, _)
LastSeparator(p, n) ==
    IF n = 0 THEN -1
    ELSE IF p[n] = "/" THEN n - 1
    ELSE LastSeparator(p, n - 1)

lastIndexOf(p) == LastSeparator(p, Len(p))

left(p, n) == SubSeq(p, 1, n)

(***************************************************************************)
(* QDir::cleanPath: drops "." and empty segments, resolves "name/..",      *)
(* keeps a leading ".." of a relative path, drops ".." at the root of an   *)
(* absolute one, and joins what is left with single separators.            *)
(***************************************************************************)
RECURSIVE CleanSegments(_, _, _)
CleanSegments(p, absolute, acc) ==
    IF p = <<>> THEN acc
    ELSE LET t == Head(p)
             r == Tail(p)
         IN  IF t = "/" \/ t = "." \/ t = "" THEN CleanSegments(r, absolute, acc)
             ELSE IF t = ".."
             THEN IF acc # <<>> /\ acc[Len(acc)] # ".."
                  THEN CleanSegments(r, absolute, SubSeq(acc, 1, Len(acc) - 1))
                  ELSE IF absolute THEN CleanSegments(r, absolute, acc)
                  ELSE CleanSegments(r, absolute, Append(acc, t))
             ELSE CleanSegments(r, absolute, Append(acc, t))

RECURSIVE JoinSegments(_)
JoinSegments(segs) ==
    IF segs = <<>> THEN <<>>
    ELSE IF Len(segs) = 1 THEN segs
    ELSE <<Head(segs), "/">> \o JoinSegments(Tail(segs))

cleanPath(p) ==
    IF p = <<>> THEN <<>>
    ELSE LET absolute == p[1] = "/"
             segs == CleanSegments(p, absolute, <<>>)
         IN  IF absolute THEN <<"/">> \o JoinSegments(segs)
             ELSE IF segs = <<>> THEN <<".">>
             ELSE JoinSegments(segs)

(***************************************************************************)
(* EPubPageReference::StandardType and typeFromString.                     *)
(***************************************************************************)
typeFromString(name) ==
    IF name = "cover" THEN "CoverPage"
    ELSE IF name = "title-page" THEN "TitlePage"
    ELSE IF name = "toc" THEN "TableOfContents"
    ELSE IF name = "index" THEN "Index"
    ELSE IF name = "glossary" THEN "Glossary"
    ELSE IF name = "acknowledgements" THEN "Acknowledgements"
    ELSE IF name = "bibliography" THEN "Bibliography"
    ELSE IF name = "colophon" THEN "Colophon"
    ELSE IF name = "copyright-page" THEN "CopyrightPage"
    ELSE IF name = "dedication" THEN "Dedication"
    ELSE IF name = "epigraph" THEN "Epigraph"
    ELSE IF name = "foreword" THEN "Foreword"
    ELSE IF name = "loi" THEN "ListOfIllustrations"
    ELSE IF name = "lot" THEN "ListOfTables"
    ELSE IF name = "notes" THEN "Notes"
    ELSE IF name = "preface" THEN "Preface"
    ELSE IF name = "text" THEN "Text"
    ELSE "Other"

(***************************************************************************)
(* The container's registries as one record c, so that the parse           *)
(* functions are operators from a record to a record:                      *)
(*   items, ordered, unordered, metadata, othermetatags, standardRefs,     *)
(*   otherRefs, toc  - the members m_items .. m_toc                        *)
(*   errors, warns   - the errorHappened signals and QLOG_WARN lines       *)
(*   stages, parsed  - the functions entered and the documents parsed      *)
(***************************************************************************)
emit(c, msg) == [c EXCEPT !.errors = Append(@, msg)]

QLOG_WARN(c, msg) == [c EXCEPT !.warns = Append(@, msg)]

\* QDomElement::attribute(name): the value, or "" when the attribute is absent.
attribute(e, name) == IF name \in DOMAIN e.attrs THEN e.attrs[name] ELSE ""

(***************************************************************************)
(* parseMetadataItem.  e = [tag, prefix, attrs, text].  m_metadata[k] on   *)
(* the non-const map inserts k with an empty value when k is absent.       *)
(***************************************************************************)
creatorValueOverwrite(md, text) == text

\* Lines 352-358; md already holds the key "creator".
creatorValue(md, text) ==
    IF md["creator"] = "" THEN text
    ELSE md["creator"] \o "; " \o text

parseMetadataItem(c, e) ==
    LET touched == IF "creator" \in DOMAIN c.metadata THEN c.metadata
                   ELSE Put(c.metadata, "creator", "")
        isMeta == e.tag = "meta"
        isCreator == ~isMeta /\ e.prefix = "dc" /\ e.tag = "creator"
        md == IF isCreator THEN touched ELSE c.metadata
        metaName == IF isMeta THEN attribute(e, "name")
                    ELSE IF e.tag = "date" THEN attribute(e, "event")
                    ELSE e.tag
        metaValue == IF isMeta THEN attribute(e, "content")
                     ELSE IF isCreator
                     THEN creatorValue(md, e.text)
                     ELSE e.text
    IN  IF ~isMeta /\ e.prefix # "dc"
        THEN QLOG_WARN(c, "Unsupported metadata tag")
        ELSE IF metaName = "" \/ metaValue = ""
        THEN [c EXCEPT !.metadata = md]
        ELSE [c EXCEPT !.metadata = Put(md, metaName, metaValue),
                       !.othermetatags =
                           IF DOMAIN e.attrs # {} THEN Put(@, metaName, e.attrs)
                           ELSE @]

(***************************************************************************)
(* parseManifestItem.  e = [id, href, mediaType], href a path.             *)
(***************************************************************************)
documentTypes == {"text/x-oeb1-document", "application/x-dtbook+xml",
                  "application/xhtml+xml"}

parseManifestItem(c, e, currentFolder) ==
    IF e.id = "" \/ e.href = <<>>
    THEN QLOG_WARN(c, "Invalid item")
    ELSE [c EXCEPT !.items = Put(@, e.id, [mimetype |-> e.mediaType,
                                           path |-> cleanPath(currentFolder \o e.href)]),
                   !.unordered = IF e.mediaType \in documentTypes
                                 THEN @ \cup {e.id} ELSE @]

(***************************************************************************)
(* parseSpineItem.  e = [idref, linear]; linear = "no" changes nothing.    *)
(***************************************************************************)
parseSpineItemPrepend(c, e) ==
    IF e.idref = ""
    THEN QLOG_WARN(c, "Invalid spine item")
    ELSE IF e.idref \notin DOMAIN c.items
    THEN QLOG_WARN(c, "Unable to find in items")
    ELSE [c EXCEPT !.unordered = @ \ {e.idref},
                   !.ordered = <<e.idref>> \o @]

parseSpineItemUnknown(c, e) ==
    IF e.idref = ""
    THEN QLOG_WARN(c, "Invalid spine item")
    ELSE [c EXCEPT !.unordered = @ \ {e.idref},
                   !.ordered = Append(@, e.idref)]

parseSpineItem(c, e) ==
    IF e.idref = ""
    THEN QLOG_WARN(c, "Invalid spine item")
    ELSE IF e.idref \notin DOMAIN c.items
    THEN QLOG_WARN(c, "Unable to find in items")
    ELSE [c EXCEPT !.unordered = @ \ {e.idref},
                   !.ordered = Append(@, e.idref)]

(***************************************************************************)
(* parseGuideItem.  e = [href, title, type].                               *)
(***************************************************************************)
parseGuideItemBoth(c, e) ==
    IF e.href = "" \/ e.title = "" \/ e.type = ""
    THEN QLOG_WARN(c, "Invalid guide item")
    ELSE LET reference == [target |-> e.href, title |-> e.title]
             standardType == typeFromString(e.type)
         IN  IF standardType = "Other"
             THEN [c EXCEPT !.otherRefs = Put(@, e.type, reference)]
             ELSE [c EXCEPT !.standardRefs = Put(@, standardType, reference),
                            !.otherRefs = Put(@, e.type, reference)]

parseGuideItem(c, e) ==
    IF e.href = "" \/ e.title = "" \/ e.type = ""
    THEN QLOG_WARN(c, "Invalid guide item")
    ELSE LET reference == [target |-> e.href, title |-> e.title]
             standardType == typeFromString(e.type)
         IN  IF standardType = "Other"
             THEN [c EXCEPT !.otherRefs = Put(@, e.type, reference)]
             ELSE [c EXCEPT !.standardRefs = Put(@, standardType, reference)]

(***************************************************************************)
(* parseContentFile.  An archive entry opens when the archive holds it     *)
(* and reading it does not fail.  doc = [metadata, manifest, spineToc,     *)
(* spine, guide]: the children of the metadata elements, the item          *)
(* elements, the spine's toc attribute, its itemref elements and the       *)
(* guide's reference elements, each in document order.                     *)
(***************************************************************************)
entryOpens(arch, name) == name \in arch.files /\ name \notin arch.unreadable

enter(c, fn) == [c EXCEPT !.stages = Append(@, fn)]

\* The loops of lines 208-213, 224-231, 247-250 and 255-262.
RECURSIVE metadataLoop(_, _)
metadataLoop(c, nodes) ==
    IF nodes = <<>> THEN c
    ELSE metadataLoop(parseMetadataItem(c, Head(nodes)), Tail(nodes))

RECURSIVE manifestLoop(_, _, _)
manifestLoop(c, nodes, folder) ==
    IF nodes = <<>> THEN c
    ELSE manifestLoop(parseManifestItem(c, Head(nodes), folder), Tail(nodes), folder)

RECURSIVE spineLoop(_, _)
spineLoop(c, nodes) ==
    IF nodes = <<>> THEN c
    ELSE spineLoop(parseSpineItem(c, Head(nodes)), Tail(nodes))

RECURSIVE guideLoop(_, _)
guideLoop(c, nodes) ==
    IF nodes = <<>> THEN c
    ELSE guideLoop(parseGuideItem(c, Head(nodes)), Tail(nodes))

contentFileFolderRoot(filepath) == <<>>

contentFileFolder(filepath) ==
    LET separatorIndex == lastIndexOf(filepath)
    IN  IF separatorIndex > 0 THEN left(filepath, separatorIndex + 1) ELSE <<>>

parseSpineToc(c, tocId) ==
    IF tocId # "" /\ tocId \in DOMAIN c.items
    THEN [c EXCEPT !.standardRefs =
             Put(@, "TableOfContents",
                 [target |-> tocId, title |-> "Table of Contents"])]
    ELSE c

parseContentFile(c0, filepath, arch) ==
    LET c == enter(c0, "parseContentFile")
    IN  IF ~entryOpens(arch, filepath)
        THEN [ok |-> FALSE,
              c |-> emit(c, "Malformed metadata, unable to get content metadata path")]
        ELSE LET doc == arch.doc
                 c1 == metadataLoop(c, doc.metadata)
                 c2 == manifestLoop(c1, doc.manifest, contentFileFolder(filepath))
                 c3 == parseSpineToc(c2, doc.spineToc)
                 c4 == spineLoop(c3, doc.spine)
                 c5 == guideLoop(c4, doc.guide)
             IN  [ok |-> TRUE, c |-> [c5 EXCEPT !.parsed = Append(@, filepath)]]

(***************************************************************************)
(* parseMimetype.                                                          *)
(***************************************************************************)
parseMimetypeLenient(c0, fileList, arch) ==
    LET c == enter(c0, "parseMimetype")
    IN  IF MIMETYPE_FILE \in fileList /\ ~entryOpens(arch, MIMETYPE_FILE)
        THEN [ok |-> FALSE, c |-> emit(c, "Unable to open mimetype file")]
        ELSE IF MIMETYPE_FILE \notin fileList \/ arch.mimetype # EpubMimetype
        THEN [ok |-> TRUE, c |-> emit(c, "Unexpected mimetype")]
        ELSE [ok |-> TRUE, c |-> c]

parseMimetype(c0, fileList, arch) ==
    LET c == enter(c0, "parseMimetype")
    IN  IF MIMETYPE_FILE \in fileList
        THEN IF ~entryOpens(arch, MIMETYPE_FILE)
             THEN [ok |-> FALSE, c |-> emit(c, "Unable to open mimetype file")]
             ELSE IF arch.mimetype # EpubMimetype
             THEN [ok |-> TRUE, c |-> emit(c, "Unexpected mimetype")]
             ELSE [ok |-> TRUE, c |-> c]
        ELSE [ok |-> FALSE, c |-> emit(c, "Unable to find mimetype in file")]

(***************************************************************************)
(* parseContainer: the loop over the rootfile elements, from element i.    *)
(***************************************************************************)
noContentFileIgnored(c) == [ok |-> TRUE, c |-> c]

\* Lines 186-187: no rootfile element gave a package document.
noContentFile(c) ==
    [ok |-> FALSE, c |-> emit(c, "Unable to find and use any content files")]

RECURSIVE rootfileLoopAll(_, _, _, _)
rootfileLoopAll(c, rootNodes, i, arch) ==
    IF i > Len(rootNodes)
    THEN noContentFile(c)
    ELSE LET rootfilePath == rootNodes[i]
         IN  IF rootfilePath = <<>>
             THEN rootfileLoopAll(QLOG_WARN(c, "Invalid root file entry"),
                                  rootNodes, i + 1, arch)
             ELSE LET r == parseContentFile(c, rootfilePath, arch)
                      rest == rootfileLoopAll(r.c, rootNodes, i + 1, arch)
                  IN  IF r.ok
                      THEN [ok |-> TRUE, c |-> IF rest.ok THEN rest.c ELSE r.c]
                      ELSE rest

RECURSIVE rootfileLoop(_, _, _, _)
rootfileLoop(c, rootNodes, i, arch) ==
    IF i > Len(rootNodes)
    THEN noContentFile(c)
    ELSE LET rootfilePath == rootNodes[i]
         IN  IF rootfilePath = <<>>
             THEN rootfileLoop(QLOG_WARN(c, "Invalid root file entry"),
                               rootNodes, i + 1, arch)
             ELSE LET r == parseContentFile(c, rootfilePath, arch)
                  IN  IF r.ok THEN [ok |-> TRUE, c |-> r.c]
                      ELSE rootfileLoop(r.c, rootNodes, i + 1, arch)

parseContainer(c0, fileList, arch) ==
    LET c == enter(c0, "parseContainer")
    IN  IF CONTAINER_FILE \in fileList
        THEN IF ~entryOpens(arch, CONTAINER_FILE)
             THEN [ok |-> FALSE, c |-> emit(c, "Unable to open container file error")]
             ELSE rootfileLoop(c, arch.rootfiles, 1, arch)
        ELSE [ok |-> FALSE, c |-> emit(c, "Unable to find container information")]

(***************************************************************************)
(* parseToc.  ncx = [wellFormed, version, xmlns, xml_lang, headMetas,      *)
(* headNext, title, navPoints]: headMetas are the meta children of head,   *)
(* headNext the first navPoint element that follows head as a sibling      *)
(* (<<>> when there is none), navPoints the navPoint children of navMap.   *)
(* returns = FALSE when the head loop of lines 293-298 never ends.         *)
(***************************************************************************)
toInt(s) ==
    IF s = "0" THEN 0 ELSE IF s = "1" THEN 1 ELSE IF s = "2" THEN 2
    ELSE IF s = "3" THEN 3 ELSE 0

parseNavPointKeepFirst(toc, e) ==
    IF toInt(e.playOrder) \in DOMAIN toc.navmap THEN toc
    ELSE [toc EXCEPT !.navmap = Put(@, toInt(e.playOrder),
                                    [classname |-> e.class, id |-> e.id,
                                     label |-> e.label, src |-> e.src])]

parseNavPoint(toc, e) ==
    [toc EXCEPT !.navmap = Put(@, toInt(e.playOrder),
                               [classname |-> e.class, id |-> e.id,
                                label |-> e.label, src |-> e.src])]

RECURSIVE navPointLoop(_, _)
navPointLoop(toc, navPoints) ==
    IF navPoints = <<>> THEN toc
    ELSE navPointLoop(parseNavPoint(toc, Head(navPoints)), Tail(navPoints))

headLoop(toc, ncx) ==
    IF ncx.headMetas = <<>>
    THEN [returns |-> TRUE, toc |-> toc]
    ELSE LET meta == ncx.headMetas[1]
             t1 == [toc EXCEPT !.metadata = Put(@, meta.name, meta.content)]
         IN  IF ncx.headNext = <<>>
             THEN [returns |-> TRUE, toc |-> t1]
             ELSE LET nav == ncx.headNext[1]
                  IN  [returns |-> FALSE,
                       toc |-> [t1 EXCEPT !.metadata = Put(@, nav.name, nav.content)]]

parseToc(c0, fileList, arch) ==
    LET c == enter(c0, "parseToc")
    IN  IF TOC_FILE \in fileList
        THEN IF ~entryOpens(arch, TOC_FILE)
             THEN [ok |-> FALSE, returns |-> TRUE,
                   c |-> emit(c, "Unable to open container file error")]
             ELSE IF arch.ncx.wellFormed
             THEN LET ncx == arch.ncx
                      t0 == [c.toc EXCEPT !.version = ncx.version,
                                          !.xmlns = ncx.xmlns,
                                          !.xml_lang = ncx.xml_lang]
                      h == headLoop(t0, ncx)
                      t1 == [h.toc EXCEPT !.title = ncx.title]
                  IN  IF h.returns
                      THEN [ok |-> TRUE, returns |-> TRUE,
                            c |-> [c EXCEPT !.toc = navPointLoop(t1, ncx.navPoints)]]
                      ELSE [ok |-> FALSE, returns |-> FALSE,
                            c |-> [c EXCEPT !.toc = h.toc]]
             ELSE [ok |-> TRUE, returns |-> TRUE, c |-> c]
        ELSE [ok |-> TRUE, returns |-> TRUE, c |-> c]

(***************************************************************************)
(* The accessors.  zipFile(path) opens an entry of m_archive; image(id)    *)
(* answers [ret, reads, errors, warns]: "empty" for QImage(), "image" for  *)
(* the decoded entry, the entries it opened, the errorHappened signals it  *)
(* emitted and the warnings it logged.                                     *)
(***************************************************************************)
zipFile(arch, path) ==
    IF arch.zipOk /\ entryOpens(arch, path)
    THEN [ok |-> TRUE, reads |-> <<path>>, errors |-> <<>>]
    ELSE [ok |-> FALSE, reads |-> <<>>, errors |-> <<"Unable to open file">>]

\* QImageReader::supportedMimeTypes() of a Qt build with its stock plugins.
supportedMimeTypes == {"image/png", "image/jpeg", "image/gif", "image/bmp"}

imageReadFirst(items, id, arch) ==
    IF id \notin DOMAIN items
    THEN [ret |-> "empty", reads |-> <<>>, errors |-> <<>>,
          warns |-> <<"Asked for unknown item">>]
    ELSE LET f == zipFile(arch, items[id].path)
         IN  IF items[id].mimetype \notin supportedMimeTypes
             THEN [ret |-> "empty", reads |-> f.reads, errors |-> f.errors,
                   warns |-> <<"Asked for unsupported type">>]
             ELSE IF ~f.ok
             THEN [ret |-> "empty", reads |-> <<>>, errors |-> f.errors, warns |-> <<>>]
             ELSE [ret |-> "image", reads |-> f.reads, errors |-> <<>>, warns |-> <<>>]

image(items, id, arch) ==
    IF id \notin DOMAIN items
    THEN [ret |-> "empty", reads |-> <<>>, errors |-> <<>>,
          warns |-> <<"Asked for unknown item">>]
    ELSE IF items[id].mimetype \notin supportedMimeTypes
    THEN [ret |-> "empty", reads |-> <<>>, errors |-> <<>>,
          warns |-> <<"Asked for unsupported type">>]
    ELSE LET f == zipFile(arch, items[id].path)
         IN  IF ~f.ok
             THEN [ret |-> "empty", reads |-> <<>>, errors |-> f.errors, warns |-> <<>>]
             ELSE [ret |-> "image", reads |-> f.reads, errors |-> <<>>, warns |-> <<>>]

\* metadata(key) and setMetadata(key, value): the value returned and the
\* store afterwards.
metadataInserting(md, key) ==
    [ret |-> ValueOf(md, key),
     metadata |-> IF key \in DOMAIN md THEN md ELSE Put(md, key, "")]

metadata(md, key) == [ret |-> ValueOf(md, key), metadata |-> md]

setMetadata(md, key, value) == Put(md, key, value)

(***************************************************************************)
(* openFile's sequencing of the stages (lines 51-63): the position after   *)
(* stage fn returned ok, and the value openFile returns there.             *)
(***************************************************************************)
afterStageUnchecked(fn, ok) ==
    IF fn = "parseMimetype" THEN "parseContainer"
    ELSE IF fn = "parseContainer" THEN "parseToc"
    ELSE "done"

afterStage(fn, ok) ==
    IF ~ok THEN "done"
    ELSE IF fn = "parseMimetype" THEN "parseContainer"
    ELSE IF fn = "parseContainer" THEN "parseToc"
    ELSE "done"

returned(fn, ok) ==
    IF ~ok THEN "false"
    ELSE IF fn = "parseToc" THEN "true"
    ELSE "none"

(***************************************************************************)
(* The archives openFile is run on.  An archive is                         *)
(*   zipOk      - QuaZip::open succeeds                                    *)
(*   files      - the entry names getFileNameList returns                  *)
(*   unreadable - entries whose QuaZipFile::open fails                     *)
(*   mimetype   - content of the mimetype entry                            *)
(*   rootfiles  - full-path of each rootfile element of container.xml      *)
(*   doc        - the package document (the same at every package path)    *)
(*   ncx        - the NCX document                                         *)
(* Entry names of a zip archive do not begin with '/', so a package path   *)
(* that opens has its last separator, if any, at an index above 0.         *)
(***************************************************************************)
Opf1 == <<"OEBPS", "/", "content.opf">>
Opf2 == <<"content.opf">>
Opf3 == <<"OEBPS", "/", "pkg", "/", "content.opf">>

Xhtml == "application/xhtml+xml"
Png == "image/png"

NoAttrs == [x \in {} |-> ""]

MetaElems ==
    {[tag |-> "meta", prefix |-> "", attrs |-> a, text |-> ""] :
        a \in {NoAttrs, "name" :> "cover", "content" :> "img1",
               ("name" :> "cover") @@ ("content" :> "img1")}}
    \cup {[tag |-> "creator", prefix |-> "dc", attrs |-> NoAttrs, text |-> t] :
              t \in {"", "A"}}
    \cup {[tag |-> "creator", prefix |-> "dc", attrs |-> "role" :> "aut", text |-> "B"],
          [tag |-> "creator", prefix |-> "", attrs |-> NoAttrs, text |-> "C"],
          [tag |-> "date", prefix |-> "dc", attrs |-> "event" :> "publication",
           text |-> "2001"],
          [tag |-> "date", prefix |-> "dc", attrs |-> NoAttrs, text |-> "2001"],
          [tag |-> "title", prefix |-> "dc", attrs |-> NoAttrs, text |-> "T"],
          [tag |-> "title", prefix |-> "dc", attrs |-> NoAttrs, text |-> ""],
          [tag |-> "x-meta", prefix |-> "opf", attrs |-> NoAttrs, text |-> "x"]}

ManifestElems ==
    {[id |-> i, href |-> <<"chap1.xhtml">>, mediaType |-> t] :
        i \in {"a", "b"}, t \in {Xhtml, Png}}
    \cup {[id |-> "", href |-> <<"chap1.xhtml">>, mediaType |-> Xhtml],
          [id |-> "a", href |-> <<>>, mediaType |-> Xhtml]}

Hrefs == {<<"chap1.xhtml">>, <<"..", "/", "cover.png">>, <<"text", "/", "chap2.xhtml">>}

PathElems == {[id |-> i, href |-> h, mediaType |-> Xhtml] : i \in {"a", "b"}, h \in Hrefs}

SpineElems ==
    {[idref |-> i, linear |-> ""] : i \in {"", "a", "b"}}
    \cup {[idref |-> "a", linear |-> "no"]}

StandardTypeNames ==
    {"cover", "title-page", "toc", "index", "glossary", "acknowledgements",
     "bibliography", "colophon", "copyright-page", "dedication", "epigraph",
     "foreword", "loi", "lot", "notes", "preface", "text"}

OtherTypeNames == {"custom", "Cover"}

GuideElems ==
    {[href |-> "p.xhtml", title |-> "P", type |-> t] :
        t \in StandardTypeNames \cup OtherTypeNames}
    \cup {[href |-> "q.xhtml", title |-> "Q", type |-> t] : t \in {"cover", "custom"}}
    \cup {[href |-> "", title |-> "P", type |-> "cover"],
          [href |-> "p.xhtml", title |-> "", type |-> "custom"],
          [href |-> "p.xhtml", title |-> "P", type |-> ""]}

\* navPoint children of navMap: nested holds the navPoint children of the
\* element itself, playOrder "" an element without the attribute.
NavPointElems ==
    {[class |-> "chapter", id |-> i, playOrder |-> o, label |-> i, src |-> "c.xhtml",
      nested |-> <<>>] :
        i \in {"n1", "n2"}, o \in {"0", "1", "x"}}
    \cup {[class |-> "chapter", id |-> "n1", playOrder |-> "", label |-> "n1",
           src |-> "c.xhtml", nested |-> <<>>],
          [class |-> "chapter", id |-> "n1", playOrder |-> "1", label |-> "n1",
           src |-> "c.xhtml",
           nested |-> <<[class |-> "section", id |-> "n3", playOrder |-> "2",
                         label |-> "n3", src |-> "c.xhtml#s", nested |-> <<>>]>>]}

TocMetaElems == {[name |-> n, content |-> "v"] : n \in {"dtb:uid", "dtb:depth"}}

DefaultDoc ==
    [metadata |-> <<[tag |-> "title", prefix |-> "dc", attrs |-> NoAttrs, text |-> "T"]>>,
     manifest |-> <<[id |-> "a", href |-> <<"chap1.xhtml">>, mediaType |-> Xhtml]>>,
     spineToc |-> "",
     spine |-> <<[idref |-> "a", linear |-> ""]>>,
     guide |-> <<>>]

DefaultNcx ==
    [wellFormed |-> TRUE, version |-> "2005-1",
     xmlns |-> "http://www.daisy.org/z3986/2005/ncx/", xml_lang |-> "en",
     headMetas |-> <<[name |-> "dtb:uid", content |-> "v"]>>,
     headNext |-> <<>>, title |-> "T",
     navPoints |-> <<[class |-> "chapter", id |-> "n1", playOrder |-> "1",
                      label |-> "n1", src |-> "c.xhtml", nested |-> <<>>]>>]

GoodFiles == {MIMETYPE_FILE, CONTAINER_FILE, TOC_FILE, Opf1}

AllFiles == GoodFiles \cup {Opf2}

GoodArchive ==
    [zipOk |-> TRUE, files |-> GoodFiles, unreadable |-> {}, mimetype |-> EpubMimetype,
     rootfiles |-> <<Opf1>>, doc |-> DefaultDoc, ncx |-> DefaultNcx]

NoArchive ==
    [zipOk |-> FALSE, files |-> {}, unreadable |-> {}, mimetype |-> "",
     rootfiles |-> <<>>,
     doc |-> [metadata |-> <<>>, manifest |-> <<>>, spineToc |-> "", spine |-> <<>>,
              guide |-> <<>>],
     ncx |-> [DefaultNcx EXCEPT !.wellFormed = FALSE]]

\* Archives that differ in what the pipeline stages find.
PipelineArchives ==
    {[GoodArchive EXCEPT !.files = f, !.unreadable = u, !.mimetype = m,
                         !.rootfiles = r] :
        f \in SUBSET AllFiles,
        u \in {{}} \cup {{n} : n \in AllFiles},
        m \in {EpubMimetype, "text/plain"},
        r \in SeqsUpTo({<<>>, Opf1, Opf2}, MaxRootfiles)}

\* Files that are no zip archive.
BrokenArchives == {[GoodArchive EXCEPT !.zipOk = FALSE]}

\* Archives that differ in the manifest and the spine.
ItemArchives ==
    {[GoodArchive EXCEPT !.doc = [DefaultDoc EXCEPT !.manifest = mf, !.spine = sp]] :
        mf \in SeqsUpTo(ManifestElems, MaxItems), sp \in SeqsUpTo(SpineElems, MaxSpine)}

\* Archives that differ in the package path and the hrefs.
PathArchives ==
    {[GoodArchive EXCEPT !.files = GoodFiles \cup {p}, !.rootfiles = <<p>>,
                         !.doc = [DefaultDoc EXCEPT !.manifest = mf]] :
        p \in {Opf1, Opf2, Opf3}, mf \in SeqsUpTo(PathElems, MaxItems)}

\* Archives that differ in the metadata.
MetaArchives ==
    {[GoodArchive EXCEPT !.doc = [DefaultDoc EXCEPT !.metadata = md]] :
        md \in SeqsUpTo(MetaElems, MaxMeta)}

\* Archives that differ in the guide and the spine's toc attribute.
GuideArchives ==
    {[GoodArchive EXCEPT !.doc = [DefaultDoc EXCEPT !.guide = g, !.spineToc = t]] :
        g \in SeqsUpTo(GuideElems, MaxGuide), t \in {"", "a", "zz"}}

\* Archives that differ in the NCX document.
TocArchives ==
    {[GoodArchive EXCEPT !.ncx = [DefaultNcx EXCEPT !.wellFormed = w, !.headMetas = hm,
                                                    !.headNext = hn, !.navPoints = np]] :
        w \in BOOLEAN,
        hm \in SeqsUpTo(TocMetaElems, MaxTocMeta),
        hn \in {<<>>, <<[name |-> "", content |-> ""]>>},
        np \in SeqsUpTo(NavPointElems, MaxNavPoints)}

\* Archives that differ in the manifest and in whether the item's entry is
\* there and opens.
Chap1 == <<"OEBPS", "/", "chap1.xhtml">>

ImageArchives ==
    {[GoodArchive EXCEPT !.files = GoodFiles \cup extra, !.unreadable = u,
                         !.doc = [DefaultDoc EXCEPT !.manifest = mf]] :
        extra \in {{}, {Chap1}}, u \in {{}, {Chap1}},
        mf \in SeqsUpTo(ManifestElems, MaxItems)}

\* Books opened one after the other on the same container: they differ in
\* the manifest item, the spine, the creator and the NCX navPoint.
ReopenArchives ==
    {[GoodArchive EXCEPT
        !.doc = [DefaultDoc EXCEPT
                    !.metadata = <<[tag |-> "creator", prefix |-> "dc",
                                    attrs |-> NoAttrs, text |-> t]>>,
                    !.manifest = <<[id |-> i, href |-> <<"chap1.xhtml">>,
                                    mediaType |-> Xhtml]>>,
                    !.spine = <<[idref |-> i, linear |-> ""]>>],
        !.ncx = [DefaultNcx EXCEPT
                    !.navPoints = <<[class |-> "chapter", id |-> "n1", playOrder |-> po,
                                     label |-> "n1", src |-> "c.xhtml", nested |-> <<>>]>>]] :
        i \in {"a", "b"}, t \in {"A", "B"}, po \in {"1", "2"}}
    \cup BrokenArchives

ArchiveKinds == {"pipeline", "broken", "items", "paths", "metadata", "guide", "toc"}

Archives(kind) ==
    CASE kind = "pipeline" -> PipelineArchives
      [] kind = "broken" -> BrokenArchives
      [] kind = "items" -> ItemArchives
      [] kind = "paths" -> PathArchives
      [] kind = "metadata" -> MetaArchives
      [] kind = "guide" -> GuideArchives
      [] kind = "toc" -> TocArchives
      [] kind = "images" -> ImageArchives
      [] kind = "reopen" -> ReopenArchives

(***************************************************************************)
(* State machine.                                                          *)
(***************************************************************************)
NoCall == [op |-> "none", arg |-> "", value |-> "", ret |-> "", reads |-> <<>>,
           errors |-> <<>>, warns |-> <<>>]

EmptyToc ==
    [version |-> "", xmlns |-> "", xml_lang |-> "", metadata |-> EmptyMap,
     title |-> "", navmap |-> [x \in {} |-> ""]]

Init ==
    /\ pc = "idle"
    /\ opens = 0
    /\ archive = NoArchive
    /\ files = {}
    /\ result = "none"
    /\ errorEvents = <<>>
    /\ warnings = <<>>
    /\ stages = <<>>
    /\ parsed = <<>>
    /\ m_items = EmptyMap
    /\ m_orderedItems = <<>>
    /\ m_unorderedItems = {}
    /\ m_metadata = EmptyMap
    /\ m_othermetatags = EmptyMap
    /\ m_standardReferences = EmptyMap
    /\ m_otherReferences = EmptyMap
    /\ m_toc = EmptyToc
    /\ headVisits = 0
    /\ call = NoCall

Container ==
    [items |-> m_items, ordered |-> m_orderedItems, unordered |-> m_unorderedItems,
     metadata |-> m_metadata, othermetatags |-> m_othermetatags,
     standardRefs |-> m_standardReferences, otherRefs |-> m_otherReferences,
     toc |-> m_toc, errors |-> errorEvents, warns |-> warnings,
     stages |-> stages, parsed |-> parsed]

Install(c) ==
    /\ m_items' = c.items
    /\ m_orderedItems' = c.ordered
    /\ m_unorderedItems' = c.unordered
    /\ m_metadata' = c.metadata
    /\ m_othermetatags' = c.othermetatags
    /\ m_standardReferences' = c.standardRefs
    /\ m_otherReferences' = c.otherRefs
    /\ m_toc' = c.toc
    /\ errorEvents' = c.errors
    /\ warnings' = c.warns
    /\ stages' = c.stages
    /\ parsed' = c.parsed

\* openFile, lines 37-49: open the archive and list its entries.
openArchive(arch) ==
    IF ~arch.zipOk THEN [ok |-> FALSE, errors |-> <<"Failed to open">>]
    ELSE IF arch.files = {} THEN [ok |-> FALSE, errors |-> <<"Failed to read">>]
    ELSE [ok |-> TRUE, errors |-> <<>>]

\* openFile, lines 34-51, on the archive arch.
Open(arch) ==
    /\ LET r == openArchive(arch)
       IN  /\ archive' = arch
           /\ opens' = opens + 1
           /\ files' = IF arch.zipOk THEN arch.files ELSE {}
           /\ errorEvents' = r.errors
           /\ pc' = IF r.ok THEN "parseMimetype" ELSE "done"
           /\ result' = IF r.ok THEN "none" ELSE "false"
    /\ warnings' = <<>>
    /\ stages' = <<>>
    /\ parsed' = <<>>
    /\ headVisits' = 0
    /\ call' = NoCall
    /\ UNCHANGED <<m_items, m_orderedItems, m_unorderedItems, m_metadata,
                   m_othermetatags, m_standardReferences, m_otherReferences, m_toc>>

\* The first openFile on a freshly constructed container.
OpenFileOn(kinds) ==
    /\ pc = "idle"
    /\ \E kind \in kinds : \E arch \in Archives(kind) : Open(arch)

OpenFile == OpenFileOn(ArchiveKinds)

ParseMimetype ==
    /\ pc = "parseMimetype"
    /\ LET r == parseMimetype(Container, files, archive)
       IN  /\ Install(r.c)
           /\ pc' = afterStage("parseMimetype", r.ok)
           /\ result' = returned("parseMimetype", r.ok)
    /\ UNCHANGED <<opens, archive, files, headVisits, call>>

ParseContainer ==
    /\ pc = "parseContainer"
    /\ LET r == parseContainer(Container, files, archive)
       IN  /\ Install(r.c)
           /\ pc' = afterStage("parseContainer", r.ok)
           /\ result' = returned("parseContainer", r.ok)
    /\ UNCHANGED <<opens, archive, files, headVisits, call>>

ParseToc ==
    /\ pc = "parseToc"
    /\ LET r == parseToc(Container, files, archive)
       IN  /\ Install(r.c)
           /\ pc' = IF r.returns THEN afterStage("parseToc", r.ok) ELSE "parseToc.while"
           /\ result' = IF r.returns THEN returned("parseToc", r.ok) ELSE "none"
           /\ headVisits' = IF r.returns THEN 0 ELSE 1
    /\ UNCHANGED <<opens, archive, files, call>>

\* parseToc, lines 293-298, once the loop variable holds the navPoint that
\* follows head: nextSiblingElement("navPoint") is taken from head again, so
\* the body runs on that same element, and nothing else changes.
TocHeadLoop ==
    /\ pc = "parseToc.while"
    /\ headVisits < MaxHeadVisits
    /\ LET nav == archive.ncx.headNext[1]
       IN  m_toc' = [m_toc EXCEPT !.metadata = Put(@, nav.name, nav.content)]
    /\ headVisits' = headVisits + 1
    /\ UNCHANGED <<pc, opens, archive, files, result, errorEvents, warnings, stages,
                   parsed, m_items, m_orderedItems, m_unorderedItems, m_metadata,
                   m_othermetatags, m_standardReferences, m_otherReferences, call>>

Next == OpenFile \/ ParseMimetype \/ ParseContainer \/ ParseToc \/ TocHeadLoop

Spec == Init /\ [][Next]_vars

(***************************************************************************)
(* The accessors, called between two openFile calls.                       *)
(***************************************************************************)
ImageIds == {"a", "b", "zz"}
MetadataKeys == {"creator", "title", "isbn"}
SetKeys == {"creator", "isbn"}
SetValues == {"X"}

Image ==
    /\ pc \in {"idle", "done"}
    /\ \E id \in ImageIds :
          LET r == image(m_items, id, archive)
          IN  call' = [op |-> "image", arg |-> id, value |-> "", ret |-> r.ret,
                       reads |-> r.reads, errors |-> r.errors, warns |-> r.warns]
    /\ UNCHANGED <<pc, opens, archive, files, result, errorEvents, warnings, stages,
                   parsed, m_items, m_orderedItems, m_unorderedItems, m_metadata,
                   m_othermetatags, m_standardReferences, m_otherReferences, m_toc,
                   headVisits>>

Metadata ==
    /\ pc \in {"idle", "done"}
    /\ \E key \in MetadataKeys :
          LET r == metadata(m_metadata, key)
          IN  /\ call' = [NoCall EXCEPT !.op = "metadata", !.arg = key, !.ret = r.ret]
              /\ m_metadata' = r.metadata
    /\ UNCHANGED <<pc, opens, archive, files, result, errorEvents, warnings, stages,
                   parsed, m_items, m_orderedItems, m_unorderedItems,
                   m_othermetatags, m_standardReferences, m_otherReferences, m_toc,
                   headVisits>>

SetMetadata ==
    /\ pc \in {"idle", "done"}
    /\ \E key \in SetKeys, value \in SetValues :
          /\ call' = [NoCall EXCEPT !.op = "setMetadata", !.arg = key, !.value = value]
          /\ m_metadata' = setMetadata(m_metadata, key, value)
    /\ UNCHANGED <<pc, opens, archive, files, result, errorEvents, warnings, stages,
                   parsed, m_items, m_orderedItems, m_unorderedItems,
                   m_othermetatags, m_standardReferences, m_otherReferences, m_toc,
                   headVisits>>

Toc ==
    /\ pc \in {"idle", "done"}
    /\ call' = [NoCall EXCEPT !.op = "toc", !.ret = "m_toc"]
    /\ UNCHANGED <<pc, opens, archive, files, result, errorEvents, warnings, stages,
                   parsed, m_items, m_orderedItems, m_unorderedItems, m_metadata,
                   m_othermetatags, m_standardReferences, m_otherReferences, m_toc,
                   headVisits>>

AccessKinds == {"images", "metadata", "broken"}

NextAccess ==
    \/ OpenFileOn(AccessKinds)
    \/ ParseMimetype
    \/ ParseContainer
    \/ ParseToc
    \/ Image
    \/ Metadata
    \/ SetMetadata
    \/ Toc

SpecAccess == Init /\ [][NextAccess]_vars

(***************************************************************************)
(* openFile called again on a container that has been opened before.       *)
(***************************************************************************)
ReopenFile ==
    /\ pc = "done"
    /\ opens < MaxOpens
    /\ \E arch \in Archives("reopen") : Open(arch)

NextReopen ==
    \/ OpenFileOn({"reopen"})
    \/ ReopenFile
    \/ ParseMimetype
    \/ ParseContainer
    \/ ParseToc

SpecReopen == Init /\ [][NextReopen]_vars

(***************************************************************************)
(* Properties.  What the package document declares, read off the archive   *)
(* independently of the parse functions.                                   *)
(***************************************************************************)
Range(f) == {f[x] : x \in DOMAIN f}

Doc == archive.doc

Registries ==
    <<m_items, m_orderedItems, m_unorderedItems, m_metadata, m_othermetatags,
      m_standardReferences, m_otherReferences>>

RegistriesEmpty ==
    /\ DOMAIN m_items = {}
    /\ m_orderedItems = <<>>
    /\ m_unorderedItems = {}
    /\ DOMAIN m_metadata = {}
    /\ DOMAIN m_othermetatags = {}
    /\ DOMAIN m_standardReferences = {}
    /\ DOMAIN m_otherReferences = {}

\* The first openFile on the container has returned success.
FirstOpenSucceeded == opens = 1 /\ pc = "done" /\ result = "true"

\* Ids of the item elements that carry an id and an href.
DeclaredIds == {e.id : e \in {x \in Range(Doc.manifest) : x.id # "" /\ x.href # <<>>}}

SpineIdrefs == [i \in 1..Len(Doc.spine) |-> Doc.spine[i].idref]

IsResolvedIdref(x) == x # "" /\ x \in DeclaredIds

ReadingOrder == SelectSeq(SpineIdrefs, IsResolvedIdref)

\* C1: after the first openFile returned success, orderedIds is the sequence
\* of the spine's idref values that are non-empty and name a manifest id, in
\* document order, and no id is both ordered and unordered.
C1_SpineOrder ==
    FirstOpenSucceeded =>
        /\ m_orderedItems = ReadingOrder
        /\ Range(m_orderedItems) \cap m_unorderedItems = {}

C1_Witness ==
    /\ FirstOpenSucceeded
    /\ Len(Doc.spine) = 3
    /\ m_orderedItems = <<"b", "a">>

\* C2 (as claimed): once openFile returned success every manifest id is in
\* exactly one of orderedIds and unorderedIds.
C2_ExactlyOne ==
    FirstOpenSucceeded =>
        \A id \in DOMAIN m_items :
            (id \in Range(m_orderedItems)) # (id \in m_unorderedItems)

IsDcCreator(e) == e.prefix = "dc" /\ e.tag = "creator"

CreatorTexts ==
    LET cs == SelectSeq(Doc.metadata, IsDcCreator)
    IN  [i \in 1..Len(cs) |-> cs[i].text]

RECURSIVE JoinWith(_, _)
JoinWith(texts, sep) ==
    IF Len(texts) = 1 THEN texts[1]
    ELSE JoinWith(SubSeq(texts, 1, Len(texts) - 1), sep) \o sep \o texts[Len(texts)]

\* C3: when the dc:creator elements parsed by the first open have the
\* non-empty texts t1..tn, the metadata value of key creator is
\* t1; t2; ...; tn in encounter order.
C3_CreatorsJoined ==
    (opens = 1 /\ parsed # <<>> /\ CreatorTexts # <<>>
        /\ \A i \in DOMAIN CreatorTexts : CreatorTexts[i] # "")
    => /\ "creator" \in DOMAIN m_metadata
       /\ m_metadata["creator"] = JoinWith(CreatorTexts, "; ")

C3_Witness ==
    /\ opens = 1
    /\ parsed # <<>>
    /\ CreatorTexts = <<"A", "B">>
    /\ m_metadata["creator"] = "A; B"

\* The enum key the claim pairs with each of the 17 standard type strings.
StandardKey ==
    [t \in StandardTypeNames |->
        CASE t = "cover" -> "CoverPage"
          [] t = "title-page" -> "TitlePage"
          [] t = "toc" -> "TableOfContents"
          [] t = "index" -> "Index"
          [] t = "glossary" -> "Glossary"
          [] t = "acknowledgements" -> "Acknowledgements"
          [] t = "bibliography" -> "Bibliography"
          [] t = "colophon" -> "Colophon"
          [] t = "copyright-page" -> "CopyrightPage"
          [] t = "dedication" -> "Dedication"
          [] t = "epigraph" -> "Epigraph"
          [] t = "foreword" -> "Foreword"
          [] t = "loi" -> "ListOfIllustrations"
          [] t = "lot" -> "ListOfTables"
          [] t = "notes" -> "Notes"
          [] t = "preface" -> "Preface"
          [] t = "text" -> "Text"]

IsCompleteReference(e) == e.href # "" /\ e.title # "" /\ e.type # ""

CompleteReferences == SelectSeq(Doc.guide, IsCompleteReference)

\* The last complete reference of type t, as the registry stores it.
LastOfType(t) ==
    LET idx == {i \in DOMAIN CompleteReferences : CompleteReferences[i].type = t}
        last == CHOOSE i \in idx : \A j \in idx : j <= i
    IN  [target |-> CompleteReferences[last].href,
         title |-> CompleteReferences[last].title]

SpineTocResolves == Doc.spineToc # "" /\ Doc.spineToc \in DeclaredIds

\* C4: each complete guide reference is in exactly one bucket: a standard
\* type under its enum key and not in the other bucket, any other type in
\* the other bucket under its literal string and under no standard key.
C4_GuideBuckets ==
    (opens = 1 /\ parsed # <<>>) =>
        /\ \A i \in DOMAIN CompleteReferences :
              LET t == CompleteReferences[i].type
              IN  IF t \in StandardTypeNames
                  THEN /\ StandardKey[t] \in DOMAIN m_standardReferences
                       /\ m_standardReferences[StandardKey[t]] = LastOfType(t)
                       /\ t \notin DOMAIN m_otherReferences
                  ELSE /\ t \in DOMAIN m_otherReferences
                       /\ m_otherReferences[t] = LastOfType(t)
        /\ DOMAIN m_otherReferences =
              {e.type : e \in {x \in Range(CompleteReferences) :
                                  x.type \notin StandardTypeNames}}
        /\ DOMAIN m_standardReferences =
              {StandardKey[e.type] : e \in {x \in Range(CompleteReferences) :
                                              x.type \in StandardTypeNames}}
              \cup (IF SpineTocResolves THEN {"TableOfContents"} ELSE {})

C4_Witness ==
    /\ opens = 1
    /\ parsed # <<>>
    /\ Len(CompleteReferences) = 2
    /\ "CoverPage" \in DOMAIN m_standardReferences
    /\ "custom" \in DOMAIN m_otherReferences
    /\ "cover" \notin DOMAIN m_otherReferences

\* What the archive offers to each stage, read off the archive.
Readable(name) == name \in archive.files /\ name \notin archive.unreadable

Listed == archive.zipOk /\ archive.files # {}

MimetypeStageOk == Listed /\ Readable(MIMETYPE_FILE)

\* Some rootfile element has a non-empty full-path that opens.
Resolvable ==
    \E i \in DOMAIN archive.rootfiles :
        archive.rootfiles[i] # <<>> /\ Readable(archive.rootfiles[i])

ContainerStageOk == Readable(CONTAINER_FILE) /\ Resolvable

TocStageOk == TOC_FILE \notin archive.files \/ Readable(TOC_FILE)

LaterStages == {"parseContainer", "parseContentFile", "parseToc"}

\* C5: an archive without a mimetype entry makes openFile fail with exactly
\* one error event, and no later stage is reached, so the registries and
\* the TOC of a fresh container stay empty.
C5_MissingMimetype ==
    (opens = 1 /\ archive.zipOk /\ MIMETYPE_FILE \notin archive.files) =>
        /\ pc \in {"parseMimetype", "done"}
        /\ Range(stages) \cap LaterStages = {}
        /\ result # "true"
        /\ RegistriesEmpty
        /\ m_toc = EmptyToc
        /\ pc = "done" => (result = "false" /\ Len(errorEvents) = 1)

C5_Witness ==
    /\ opens = 1
    /\ pc = "done"
    /\ MIMETYPE_FILE \notin archive.files
    /\ CONTAINER_FILE \in archive.files
    /\ stages = <<"parseMimetype">>
    /\ errorEvents = <<"Unable to find mimetype in file">>

\* C6 (as claimed): a mimetype entry whose content is not
\* application/epub+zip is reported as a warning on the log channel and
\* not as an error event, and the stage succeeds.
C6_MismatchIsWarning ==
    (opens = 1 /\ stages # <<>> /\ MimetypeStageOk
        /\ archive.mimetype # EpubMimetype)
    => /\ "Unexpected mimetype" \notin Range(errorEvents)
       /\ "Unexpected mimetype" \in Range(warnings)
       /\ "parseContainer" \in Range(stages) \/ pc = "parseContainer"

\* C7: when no rootfile element has a non-empty full-path that opens,
\* openFile fails, the TOC stage is never reached and the registries of a
\* fresh container stay empty, whatever other entries the archive holds.
C7_NoRootfile ==
    (opens = 1 /\ ~Resolvable) =>
        /\ result # "true"
        /\ pc = "done" => result = "false"
        /\ "parseToc" \notin Range(stages)
        /\ parsed = <<>>
        /\ RegistriesEmpty

C7_Witness ==
    /\ opens = 1
    /\ pc = "done"
    /\ result = "false"
    /\ archive.rootfiles = <<<<>>, Opf2>>
    /\ Opf1 \in archive.files
    /\ Opf2 \notin archive.files
    /\ stages = <<"parseMimetype", "parseContainer", "parseContentFile">>

\* C8 (as claimed): an openFile call that returns failure has raised
\* exactly one error event.
C8_OneErrorPerFailure ==
    (pc = "done" /\ result = "false") => Len(errorEvents) = 1

IsPrefix(s, t) == Len(s) <= Len(t) /\ s = SubSeq(t, 1, Len(s))

IsTopStage(fn) == fn # "parseContentFile"

\* parseContentFile runs inside parseContainer only.
ContentFileInsideContainer ==
    \A i \in DOMAIN stages :
        stages[i] = "parseContentFile" =>
            /\ \E j \in 1..(i - 1) : stages[j] = "parseContainer"
            /\ \A j \in 1..(i - 1) : stages[j] # "parseToc"

StageOrder ==
    /\ IsPrefix(SelectSeq(stages, IsTopStage),
                <<"parseMimetype", "parseContainer", "parseToc">>)
    /\ ContentFileInsideContainer
    /\ "parseContainer" \in Range(stages) => MimetypeStageOk
    /\ parsed # <<>> => MimetypeStageOk /\ Readable(CONTAINER_FILE)
    /\ "parseToc" \in Range(stages) => MimetypeStageOk /\ ContainerStageOk /\ parsed # <<>>
    /\ result = "true" <=>
          (pc = "done" /\ MimetypeStageOk /\ ContainerStageOk /\ parsed # <<>>
              /\ TocStageOk)

\* C9: the stages run in the order mimetype, container, package document,
\* TOC, each only after the earlier ones succeeded; openFile returns true
\* exactly when all succeeded; once it has failed nothing more runs or
\* changes the model.
C9_StagesInOrder ==
    /\ [](opens >= 1 => StageOrder)
    /\ [][(result = "false" /\ opens' = opens) =>
              (stages' = stages /\ Registries' = Registries /\ m_toc' = m_toc)]_vars

C9_Witness ==
    /\ pc = "done"
    /\ result = "true"
    /\ stages = <<"parseMimetype", "parseContainer", "parseContentFile",
                  "parseContentFile", "parseToc">>

\* The directory of a path: its prefix up to and including its last '/'.
DirectoryOf(p) ==
    LET seps == {i \in DOMAIN p : p[i] = "/"}
    IN  IF seps = {} THEN <<>>
        ELSE SubSeq(p, 1, CHOOSE i \in seps : \A j \in seps : j <= i)

\* The href of the last item element that declares id.
LastHref(id) ==
    LET idx == {i \in DOMAIN Doc.manifest :
                   Doc.manifest[i].id = id /\ Doc.manifest[i].href # <<>>}
    IN  Doc.manifest[CHOOSE i \in idx : \A j \in idx : j <= i].href

\* C10: an item's path is its href resolved against the directory of the
\* package document: chap1.xhtml in OEBPS/content.opf is OEBPS/chap1.xhtml,
\* and under a package document at the archive root the path is the href.
C10_HrefResolved ==
    (opens = 1 /\ parsed # <<>>) =>
        \A id \in DOMAIN m_items :
            LET pkg == parsed[1]
                href == LastHref(id)
                path == m_items[id].path
            IN  /\ path = cleanPath(DirectoryOf(pkg) \o href)
                /\ (pkg = Opf1 /\ href = <<"chap1.xhtml">>)
                      => path = <<"OEBPS", "/", "chap1.xhtml">>
                /\ "/" \notin Range(pkg) => path = href

C10_Witness ==
    /\ opens = 1
    /\ parsed = <<Opf1>>
    /\ Doc.manifest = <<[id |-> "a", href |-> <<"chap1.xhtml">>, mediaType |-> Xhtml],
                        [id |-> "b", href |-> <<"..", "/", "cover.png">>,
                         mediaType |-> Xhtml]>>
    /\ m_items["a"].path = <<"OEBPS", "/", "chap1.xhtml">>
    /\ m_items["b"].path = <<"cover.png">>

(***************************************************************************)
(* image(id) and the archive.                                              *)
(***************************************************************************)
ImageFailsSoft(id) ==
    \/ id \notin DOMAIN m_items
    \/ m_items[id].mimetype \notin {"image/png", "image/jpeg", "image/gif", "image/bmp"}

\* C11: image(id) called with an id that is not in the manifest, or with the
\* id of an item whose media type is not a supported image type, returns the
\* empty image, emits no errorHappened signal and opens no archive entry.
C11_ImageFailsSoft ==
    (call.op = "image" /\ ImageFailsSoft(call.arg))
        => (call.ret = "empty" /\ call.errors = <<>> /\ call.reads = <<>>)

\* image("a") was asked of a container whose item a is an XHTML document
\* whose entry is in the archive and opens.
C11_Witness ==
    /\ call.op = "image"
    /\ call.arg = "a"
    /\ "a" \in DOMAIN m_items
    /\ m_items["a"].mimetype = Xhtml
    /\ entryOpens(archive, m_items["a"].path)
    /\ call.ret = "empty"

(***************************************************************************)
(* The reading order holds each id once.                                   *)
(***************************************************************************)
\* C12: orderedIds never holds the same id twice, also when the spine has
\* two itemref elements with the same idref.
C12_NoDuplicateIds ==
    \A i, j \in DOMAIN m_orderedItems :
        i # j => m_orderedItems[i] # m_orderedItems[j]

(***************************************************************************)
(* Re-opening.                                                             *)
(***************************************************************************)
\* C13: whenever an openFile call on the container has returned success, be
\* it the first or a later one, the model is the one that this open alone
\* constructs: the manifest ids are the archive's, orderedIds is its spine
\* and creator its joined dc:creator texts.
C13_LastOpenAlone ==
    (pc = "done" /\ result = "true") =>
        /\ DOMAIN m_items = DeclaredIds
        /\ m_orderedItems = ReadingOrder
        /\ CreatorTexts # <<>> =>
              ("creator" \in DOMAIN m_metadata
                  /\ m_metadata["creator"] = JoinWith(CreatorTexts, "; "))

(***************************************************************************)
(* The rootfile candidates of container.xml.                               *)
(***************************************************************************)
Candidates == archive.rootfiles

IsGoodCandidate(i) == Candidates[i] # <<>> /\ Readable(Candidates[i])

\* The candidates parseContainer looks at: up to and including the first one
\* that is non-empty and opens, all of them when there is none.
Examined ==
    IF Resolvable
    THEN 1..(CHOOSE i \in DOMAIN Candidates :
                /\ IsGoodCandidate(i)
                /\ \A j \in 1..(i - 1) : ~IsGoodCandidate(j))
    ELSE DOMAIN Candidates

CountOf(seq, x) == Cardinality({i \in DOMAIN seq : seq[i] = x})

\* C14: once parseContainer of the first open has read container.xml, at
\* most one package document has been parsed, namely the first candidate in
\* document order that is non-empty and opens; empty candidates before it
\* were skipped with a warning, the others before it were tried and failed,
\* none after it was tried, and the registries hold what that one document
\* declares (nothing when no candidate opens).
C14_SingleDocument ==
    (opens = 1 /\ "parseContainer" \in Range(stages)
        /\ CONTAINER_FILE \in files /\ Readable(CONTAINER_FILE)) =>
        /\ Len(parsed) <= 1
        /\ Resolvable =>
              parsed = <<Candidates[CHOOSE i \in Examined : IsGoodCandidate(i)]>>
        /\ ~Resolvable => (parsed = <<>> /\ RegistriesEmpty)
        /\ CountOf(stages, "parseContentFile")
              = Cardinality({i \in Examined : Candidates[i] # <<>>})
        /\ CountOf(warnings, "Invalid root file entry")
              = Cardinality({i \in Examined : Candidates[i] = <<>>})
        /\ m_orderedItems = (IF Resolvable THEN ReadingOrder ELSE <<>>)
        /\ DOMAIN m_items = (IF Resolvable THEN DeclaredIds ELSE {})

\* The first candidate did not open and the second one was parsed.
C14_Witness ==
    /\ opens = 1
    /\ pc = "done"
    /\ Len(Candidates) = 2
    /\ Candidates[1] # <<>>
    /\ ~Readable(Candidates[1])
    /\ parsed = <<Candidates[2]>>
    /\ m_orderedItems = <<"a">>

(***************************************************************************)
(* Metadata elements without a name or a value.                            *)
(***************************************************************************)
IsNonEmpty(t) == t # ""

NonEmptyCreatorTexts == SelectSeq(CreatorTexts, IsNonEmpty)

\* C15: a metadata element whose name or value is empty is discarded: after
\* the package document of the first open was parsed no metadata key maps to
\* the empty value, and the creator value is the join of the non-empty
\* dc:creator texts alone, an empty dc:creator having altered nothing.
C15_EmptyDiscarded ==
    (opens = 1 /\ parsed # <<>>) =>
        /\ \A k \in DOMAIN m_metadata : m_metadata[k] # ""
        /\ NonEmptyCreatorTexts # <<>> =>
              ("creator" \in DOMAIN m_metadata
                  /\ m_metadata["creator"] = JoinWith(NonEmptyCreatorTexts, "; "))
        /\ NonEmptyCreatorTexts = <<>> => "creator" \notin DOMAIN m_metadata

(***************************************************************************)
(* Malformed fragments of the package document.                            *)
(***************************************************************************)
IsGoodItem(e) == e.id # "" /\ e.href # <<>>

IsGoodItemref(e) == e.idref # "" /\ e.idref \in DeclaredIds

IsSupportedMetadata(e) == e.tag = "meta" \/ e.prefix = "dc"

\* The package document without its malformed fragments.
WellFormedDoc ==
    [Doc EXCEPT !.metadata = SelectSeq(@, IsSupportedMetadata),
                !.manifest = SelectSeq(@, IsGoodItem),
                !.spine = SelectSeq(@, IsGoodItemref),
                !.guide = SelectSeq(@, IsCompleteReference)]

HasMalformedFragment == WellFormedDoc # Doc

FreshContainer ==
    [items |-> EmptyMap, ordered |-> <<>>, unordered |-> {}, metadata |-> EmptyMap,
     othermetatags |-> EmptyMap, standardRefs |-> EmptyMap, otherRefs |-> EmptyMap,
     toc |-> EmptyToc, errors |-> <<>>, warns |-> <<>>, stages |-> <<>>,
     parsed |-> <<>>]

\* What openFile does with the archive once its malformed fragments are
\* taken out of the package document.
WithoutMalformed ==
    LET arch == [archive EXCEPT !.doc = WellFormedDoc]
        s1 == parseMimetype(FreshContainer, files, arch)
        s2 == parseContainer(s1.c, files, arch)
    IN  parseToc(s2.c, files, arch)

\* C16: a manifest item without id or href, an itemref with an empty or
\* unknown idref, a guide reference without href, title or type, and a
\* metadata element that is neither dc nor named meta are dropped where
\* they stand: the first open ends with the result, the error events, the
\* registries and the TOC it would have had without them.
C16_MalformedDropped ==
    (opens = 1 /\ pc = "done" /\ parsed # <<>>) =>
        /\ m_items = WithoutMalformed.c.items
        /\ m_orderedItems = WithoutMalformed.c.ordered
        /\ m_unorderedItems = WithoutMalformed.c.unordered
        /\ m_metadata = WithoutMalformed.c.metadata
        /\ m_othermetatags = WithoutMalformed.c.othermetatags
        /\ m_standardReferences = WithoutMalformed.c.standardRefs
        /\ m_otherReferences = WithoutMalformed.c.otherRefs
        /\ m_toc = WithoutMalformed.c.toc
        /\ errorEvents = WithoutMalformed.c.errors
        /\ result = (IF WithoutMalformed.ok THEN "true" ELSE "false")
        /\ (HasMalformedFragment /\ TocStageOk) => result = "true"

\* An itemref with an empty idref stood between two good ones.
C16_Witness ==
    /\ opens = 1
    /\ pc = "done"
    /\ result = "true"
    /\ Len(Doc.spine) = 3
    /\ Doc.spine[2].idref = ""
    /\ m_orderedItems = <<"a", "b">>

(***************************************************************************)
(* The NCX document.                                                       *)
(***************************************************************************)
Ncx == archive.ncx

\* parseToc of the first open read a well-formed toc.ncx and returned.
TocParsed ==
    /\ opens = 1
    /\ pc = "done"
    /\ "parseToc" \in Range(stages)
    /\ TOC_FILE \in files
    /\ Readable(TOC_FILE)
    /\ Ncx.wellFormed

DistinctNames(metas) ==
    \A i, j \in DOMAIN metas : i # j => metas[i].name # metas[j].name

\* C17: after parseToc the TOC metadata holds the (name, content) pair of
\* every meta child of head: n meta elements of distinct names give n
\* entries.
C17_AllHeadMetas ==
    (TocParsed /\ DistinctNames(Ncx.headMetas)) =>
        /\ \A i \in DOMAIN Ncx.headMetas :
              /\ Ncx.headMetas[i].name \in DOMAIN m_toc.metadata
              /\ m_toc.metadata[Ncx.headMetas[i].name] = Ncx.headMetas[i].content
        /\ Cardinality(DOMAIN m_toc.metadata) = Len(Ncx.headMetas)

\* C18: parseToc terminates on every finite NCX document, also on one where
\* a navPoint element follows head: its loops run their body on each
\* element at most once.
C18_EachElementOnce == headVisits <= 1

\* The key the claim gives a navPoint: its playOrder when that is a number,
\* 0 when it is missing or not a number.
PlayOrderKey(e) ==
    CASE e.playOrder = "1" -> 1
      [] e.playOrder = "2" -> 2
      [] e.playOrder = "3" -> 3
      [] OTHER -> 0

\* The last navPoint child of navMap, in document order, with key k.
LastWithKey(k) ==
    LET idx == {i \in DOMAIN Ncx.navPoints : PlayOrderKey(Ncx.navPoints[i]) = k}
        last == CHOOSE i \in idx : \A j \in idx : j <= i
    IN  Ncx.navPoints[last]

\* C19: after parseToc of the first open the navmap has one NavPoint for
\* each distinct playOrder among the navPoint children of navMap, the last
\* one in document order, under its numeric key; a missing or non-numeric
\* playOrder counts as 0 and navPoints nested in a navPoint have no entry.
C19_LastPlayOrderWins ==
    TocParsed =>
        /\ DOMAIN m_toc.navmap = {PlayOrderKey(e) : e \in Range(Ncx.navPoints)}
        /\ \A k \in DOMAIN m_toc.navmap :
              m_toc.navmap[k] = [classname |-> LastWithKey(k).class,
                                 id |-> LastWithKey(k).id,
                                 label |-> LastWithKey(k).label,
                                 src |-> LastWithKey(k).src]

\* A navPoint with a non-numeric playOrder was followed by one with playOrder
\* 0 that replaced it.
C19_Witness ==
    /\ TocParsed
    /\ Len(Ncx.navPoints) = 2
    /\ Ncx.navPoints[1].playOrder = "x"
    /\ Ncx.navPoints[1].id = "n1"
    /\ Ncx.navPoints[2].playOrder = "0"
    /\ DOMAIN m_toc.navmap = {0}
    /\ m_toc.navmap[0].id = "n2"

(***************************************************************************)
(* The accessors and the model.                                            *)
(***************************************************************************)
\* Manifest, reading order, unordered ids, page references and TOC.
Structure ==
    <<m_items, m_orderedItems, m_unorderedItems, m_standardReferences,
      m_otherReferences, m_toc>>

\* Only the entry of key k may differ between the stores md and md2.
OnlyKeyChanged(md, md2, k) ==
    /\ DOMAIN md2 = DOMAIN md \cup {k}
    /\ \A x \in DOMAIN md \ {k} : md2[x] = md[x]

\* C20: after a successful open, a call of metadata(key), image(id), toc()
\* or setMetadata(key, value) leaves the manifest, orderedIds, unorderedIds,
\* the page references and the TOC as they were; metadata(key), image(id)
\* and toc() also leave the metadata store as it was, an absent key stays
\* absent; setMetadata(key, value) changes only the entry of key.
C20_AccessorsKeepModel ==
    [][(pc = "done" /\ result = "true" /\ pc' = "done") =>
          /\ Structure' = Structure
          /\ m_othermetatags' = m_othermetatags
          /\ call'.op \in {"metadata", "image", "toc"} => m_metadata' = m_metadata
          /\ call'.op = "setMetadata" =>
                /\ OnlyKeyChanged(m_metadata, m_metadata', call'.arg)
                /\ m_metadata'[call'.arg] = call'.value]_vars

\* After a successful open setMetadata replaced the creator, and then
\* metadata was asked for a key that the store does not hold.
C20_Witness ==
    /\ pc = "done"
    /\ result = "true"
    /\ DOMAIN m_items # {}
    /\ "creator" \in DOMAIN m_metadata
    /\ m_metadata["creator"] = "X"
    /\ call.op = "metadata"
    /\ call.arg = "isbn"
    /\ call.ret = ""
    /\ "isbn" \notin DOMAIN m_metadata

====
